---- MODULE Spec2Model ----
(***************************************************************************)
(* Multi-parent hierarchy of bevy_parents_childs: the Children / Parents   *)
(* components (BTreeSet<Entity>), the unidirectional primitives, the       *)
(* relationship operations of BuildWorldChildren for EntityMut, the        *)
(* commands and their deferred application through a command queue, the   *)
(* immediate and the deferred builder, the HierarchyEvent log and the      *)
(* DescendantIter / AncestorIter of the query extension.                   *)
(***************************************************************************)
EXTENDS Integers, Sequences, FiniteSets, TLC

\* ------------------------------------------------------------------ bounds
MaxEntities == 3    \* entity identifiers 1..MaxEntities
InitEntities == 2   \* entities spawned before the first operation
MaxLen == 2         \* longest children slice passed to a batch operation
MaxPending == 0     \* events still undrained when an operation starts
MaxQueue == 2       \* commands waiting in the CommandQueue
ScopeEntities == 1  \* entities spawned before the first with_children scope
MaxNodes == 4       \* entities of a hierarchy handed to the iterators
MaxEdges == 4       \* parent-child edges of such a hierarchy
MaxScopeQueue == 4  \* commands waiting while with_children scopes are open
MaxLog == 3         \* events kept in the channel when it is never drained

Entities == 1..MaxEntities

\* ------------------------------------------------------- Option<BTreeSet>
\* Option<T>: None is the empty set, Some(x) the singleton {x}.
None == {}
Some(x) == {x}
Unwrap(o) == CHOOSE x \in o : TRUE

\* ------------------------------------------------------------- state
VARIABLES
    alive,          \* entities that exist in the World
    next_id,        \* identifier the next World::spawn returns
    children,       \* entity -> Option<Children>
    parents,        \* entity -> Option<Parents>
    events,         \* Events<HierarchyEvent>, oldest first
    has_events,     \* the Events<HierarchyEvent> resource is registered
    panicked,       \* an operation aborted (panic!)
    queue,          \* CommandQueue: the commands added, oldest first
    applying,       \* CommandQueue::apply is running
    reserved,       \* identifiers handed out by Commands::spawn_empty, not yet flushed
    scope,          \* Option<ChildBuilder>: the with_children closure that is running
    immediate,      \* the World as the same operations, invoked at once, make it
    iter            \* Option: the DescendantIter / AncestorIter being consumed

vars == <<alive, next_id, children, parents, events, has_events, panicked,
          queue, applying, reserved, scope, immediate, iter>>

\* The World as a value, so that an operation is a function World -> World.
World == [alive |-> alive, next_id |-> next_id, children |-> children,
          parents |-> parents, events |-> events, has_events |-> has_events,
          panicked |-> panicked]

\* ------------------------------------------------------------- helpers
\* BTreeSet iteration order: ascending identifiers.
RECURSIVE to_vec(_)
to_vec(s) ==
    IF s = {} THEN <<>>
    ELSE LET m == CHOOSE x \in s : \A y \in s : x <= y
         IN <<m>> \o to_vec(s \ {m})

\* BTreeSet::from_iter / extend over a slice.
from_iter(list) == {list[i] : i \in 1..Len(list)}

ChildAdded(child, parent) == [kind |-> "ChildAdded", child |-> child, parent |-> parent]
ChildMoved(child, previous_parent, new_parent) ==
    [kind |-> "ChildMoved", child |-> child,
     previous_parent |-> previous_parent, new_parent |-> new_parent]

ChildRemoved(child, parent) == [kind |-> "ChildRemoved", child |-> child, parent |-> parent]

Panic(w) == [w EXCEPT !.panicked = TRUE]

\* world.entity_mut(e): aborts when e does not exist.
entity_mut(w, e) ==
    IF w.panicked THEN w
    ELSE IF e \in w.alive THEN w ELSE Panic(w)

\* Faulty variant of push_events: the Events resource is taken for granted.
push_events_requires_channel(w, evs) ==
    IF w.panicked THEN w
    ELSE IF w.has_events THEN [w EXCEPT !.events = @ \o evs] ELSE Panic(w)

push_events(w, evs) ==
    IF w.panicked THEN w
    ELSE IF w.has_events THEN [w EXCEPT !.events = @ \o evs] ELSE w

\* ------------------------------------------- UnidirectionalExt for EntityMut
\* Faulty variant of insert_children_unidirectional: the insertion is reported
\* with a ChildAdded for every child of the slice.
insert_children_notifies(w, self, list) ==
    IF w.panicked THEN w
    ELSE push_events(
             IF w.children[self] # None
             THEN [w EXCEPT !.children[self] = Some(Unwrap(@) \cup from_iter(list))]
             ELSE [w EXCEPT !.children[self] = Some(from_iter(list))],
             [i \in 1..Len(list) |-> ChildAdded(list[i], self)])

UnidirectionalExt_insert_children_unidirectional(w, self, list) ==
    IF w.panicked THEN w
    ELSE IF w.children[self] # None
         THEN [w EXCEPT !.children[self] = Some(Unwrap(@) \cup from_iter(list))]
         ELSE [w EXCEPT !.children[self] = Some(from_iter(list))]

UnidirectionalExt_remove_children_unidirectional(w, self, list) ==
    IF w.panicked THEN w
    ELSE IF w.children[self] # None
         THEN LET rest == Unwrap(w.children[self]) \ from_iter(list)
              IN IF rest = {} THEN [w EXCEPT !.children[self] = None]
                 ELSE [w EXCEPT !.children[self] = Some(rest)]
         ELSE w

\* Faulty variant of insert_parent_unidirectional: the Parents component is
\* overwritten with the new parent alone, as in a single-parent hierarchy.
insert_parent_overwrites(w, self, parent) ==
    IF w.panicked THEN w
    ELSE [w EXCEPT !.parents[self] = Some({parent})]

UnidirectionalExt_insert_parent_unidirectional(w, self, parent) ==
    IF w.panicked THEN w
    ELSE IF w.parents[self] # None
         THEN [w EXCEPT !.parents[self] = Some(Unwrap(@) \cup {parent})]
         ELSE [w EXCEPT !.parents[self] = Some({parent})]

\* Faulty variant of remove_parent_unidirectional: the Parents component is
\* removed without looking at what is left in it.
remove_parent_drops_component(w, self, parent) ==
    IF w.panicked THEN w
    ELSE [w EXCEPT !.parents[self] = None]

UnidirectionalExt_remove_parent_unidirectional(w, self, parent) ==
    IF w.panicked THEN w
    ELSE IF w.parents[self] # None
         THEN LET rest == Unwrap(w.parents[self]) \ {parent}
              IN IF rest = {} THEN [w EXCEPT !.parents[self] = None]
                 ELSE [w EXCEPT !.parents[self] = Some(rest)]
         ELSE w

\* ------------------------------------------------- free functions on World
insert_children_unidirectional(w, list, parent) ==
    UnidirectionalExt_insert_children_unidirectional(entity_mut(w, parent), parent, list)

insert_parent_unidirectional(w, child, parent) ==
    UnidirectionalExt_insert_parent_unidirectional(entity_mut(w, child), child, parent)

remove_parent_unidirectional(w, child, parent) ==
    UnidirectionalExt_remove_parent_unidirectional(entity_mut(w, child), child, parent)

remove_children_unidirectional(w, list, parent) ==
    UnidirectionalExt_remove_children_unidirectional(entity_mut(w, parent), parent, list)

\* ------------------------------------------------------ remove_children
\* Faulty variant of removed_events: one ChildRemoved per listed child, present
\* or not.
removed_events_unfiltered(w, parent, list) ==
    [i \in 1..Len(list) |-> ChildRemoved(list[i], parent)]

\* The ChildRemoved events of remove_children: input order, present children only.
removed_events(w, parent, list) ==
    LET pc == Unwrap(w.children[parent])
        present == SelectSeq(list, LAMBDA c : c \in pc)
    IN [i \in 1..Len(present) |-> ChildRemoved(present[i], parent)]

RECURSIVE remove_parent_each(_, _, _)
remove_parent_each(w, evs, parent) ==
    IF evs = <<>> THEN w
    ELSE remove_parent_each(remove_parent_unidirectional(w, Head(evs).child, parent),
                            Tail(evs), parent)

remove_children(parent, list, w) ==
    IF w.panicked THEN w
    ELSE IF w.children[parent] = None THEN w
    ELSE LET evs == removed_events(w, parent, list)
             w1 == remove_parent_each(w, evs, parent)
             w2 == push_events(w1, evs)
         IN remove_children_unidirectional(w2, list, parent)

\* ------------------------------------ clear_children_relation / clear_parents_relation
\* nodes.iter().filter_map(|node| world.entity_mut(*node).take::<Children>())
RECURSIVE take_children(_, _)
take_children(w, nodes) ==
    IF nodes = <<>> THEN [world |-> w, taken |-> {}]
    ELSE LET w1 == entity_mut(w, Head(nodes))
         IN IF w1.panicked THEN [world |-> w1, taken |-> {}]
            ELSE LET got == IF w1.children[Head(nodes)] = None THEN {}
                            ELSE Unwrap(w1.children[Head(nodes)])
                     r == take_children([w1 EXCEPT !.children[Head(nodes)] = None],
                                        Tail(nodes))
                 IN [world |-> r.world, taken |-> got \cup r.taken]

RECURSIVE take_parents(_, _)
take_parents(w, nodes) ==
    IF nodes = <<>> THEN [world |-> w, taken |-> {}]
    ELSE LET w1 == entity_mut(w, Head(nodes))
         IN IF w1.panicked THEN [world |-> w1, taken |-> {}]
            ELSE LET got == IF w1.parents[Head(nodes)] = None THEN {}
                            ELSE Unwrap(w1.parents[Head(nodes)])
                     r == take_parents([w1 EXCEPT !.parents[Head(nodes)] = None],
                                       Tail(nodes))
                 IN [world |-> r.world, taken |-> got \cup r.taken]

\* Body of the loop of clear_children_relation for one child.
clear_children_relation_child(w, child, nodes) ==
    LET w1 == entity_mut(w, child)
    IN IF w1.panicked THEN w1
       ELSE IF w1.parents[child] # None
            THEN LET rest == Unwrap(w1.parents[child]) \ from_iter(nodes)
                 IN IF rest = {} THEN [w1 EXCEPT !.parents[child] = None]
                    ELSE [w1 EXCEPT !.parents[child] = Some(rest)]
            ELSE w1

\* Body of the loop of clear_parents_relation for one parent: when the parent's
\* Children ends up empty the code removes the parent's Parents component and
\* leaves the emptied Children in place.
clear_parents_relation_parent(w, parent, nodes) ==
    LET w1 == entity_mut(w, parent)
    IN IF w1.panicked THEN w1
       ELSE IF w1.children[parent] # None
            THEN LET rest == Unwrap(w1.children[parent]) \ from_iter(nodes)
                 IN IF rest = {}
                    THEN [w1 EXCEPT !.children[parent] = Some({}),
                                    !.parents[parent] = None]
                    ELSE [w1 EXCEPT !.children[parent] = Some(rest)]
            ELSE w1

RECURSIVE clear_children_relation_loop(_, _, _)
clear_children_relation_loop(w, todo, nodes) ==
    IF todo = <<>> THEN w
    ELSE clear_children_relation_loop(clear_children_relation_child(w, Head(todo), nodes),
                                      Tail(todo), nodes)

RECURSIVE clear_parents_relation_loop(_, _, _)
clear_parents_relation_loop(w, todo, nodes) ==
    IF todo = <<>> THEN w
    ELSE clear_parents_relation_loop(clear_parents_relation_parent(w, Head(todo), nodes),
                                     Tail(todo), nodes)

clear_children_relation(nodes, w) ==
    LET t == take_children(w, nodes)
    IN clear_children_relation_loop(t.world, to_vec(t.taken), nodes)

clear_parents_relation(nodes, w) ==
    LET t == take_parents(w, nodes)
    IN clear_parents_relation_loop(t.world, to_vec(t.taken), nodes)

\* EntityMut::despawn: the entity and all its components are removed.
despawn(w, node) ==
    IF w.panicked THEN w
    ELSE [w EXCEPT !.alive = @ \ {node},
                   !.children[node] = None,
                   !.parents[node] = None]

\* ------------------------------------------ BuildWorldChildren for EntityMut
\* Every method below is called on world.entity_mut(self): self exists.

\* Faulty variant of move_parent: the new parent is inserted and the previous
\* parent is kept.
move_parent_keeps_previous(w, child, parent, new_parent) ==
    UnidirectionalExt_insert_parent_unidirectional(entity_mut(w, child), child, new_parent)

\* Faulty variant of move_parent: the child's Parents becomes the new parent
\* alone.
move_parent_single(w, child, parent, new_parent) ==
    LET w1 == entity_mut(w, child)
    IN IF w1.panicked THEN w1
       ELSE [w1 EXCEPT !.parents[child] = Some({new_parent})]

\* "handle Parent" of move_child / move_children for one child.
move_parent(w, child, parent, new_parent) ==
    LET w1 == entity_mut(w, child)
    IN IF w1.panicked THEN w1
       ELSE IF w1.parents[child] # None
            THEN [w1 EXCEPT !.parents[child] =
                                Some((Unwrap(@) \ {parent}) \cup {new_parent})]
            ELSE [w1 EXCEPT !.parents[child] = Some({new_parent})]

RECURSIVE move_parent_each(_, _, _, _)
move_parent_each(w, list, parent, new_parent) ==
    IF list = <<>> THEN w
    ELSE move_parent_each(move_parent(w, Head(list), parent, new_parent),
                          Tail(list), parent, new_parent)

\* Faulty variant of move_child: the move is reported with a ChildMoved event.
move_child_emits_moved(w, self, new_parent, child) ==
    LET w1 == UnidirectionalExt_remove_children_unidirectional(w, self, <<child>>)
        w2 == insert_children_unidirectional(w1, <<child>>, new_parent)
        w3 == move_parent(w2, child, self, new_parent)
    IN push_events(w3, <<ChildMoved(child, self, new_parent)>>)

move_child(w, self, new_parent, child) ==
    LET w1 == UnidirectionalExt_remove_children_unidirectional(w, self, <<child>>)
        w2 == insert_children_unidirectional(w1, <<child>>, new_parent)
    IN move_parent(w2, child, self, new_parent)

\* Faulty variant of add_child: the child's Parents is left alone, only the
\* parent's side is updated.
add_child_one_side(w, self, child) ==
    LET w1 == UnidirectionalExt_insert_children_unidirectional(w, self, <<child>>)
    IN push_events(w1, <<ChildAdded(child, self)>>)

add_child(w, self, child) ==
    LET w1 == UnidirectionalExt_insert_children_unidirectional(w, self, <<child>>)
        w2 == insert_parent_unidirectional(w1, child, self)
    IN push_events(w2, <<ChildAdded(child, self)>>)

move_children(w, self, new_parent, list) ==
    LET w1 == UnidirectionalExt_remove_children_unidirectional(w, self, list)
        w2 == insert_children_unidirectional(w1, list, new_parent)
    IN move_parent_each(w2, list, self, new_parent)

RECURSIVE insert_parent_each(_, _, _)
insert_parent_each(w, list, parent) ==
    IF list = <<>> THEN w
    ELSE insert_parent_each(insert_parent_unidirectional(w, Head(list), parent),
                            Tail(list), parent)

\* The slice push_children goes on with: the input without the children already
\* present, or the input as it is when self has no Children component.
push_children_filter(w, self, list) ==
    IF w.children[self] # None
    THEN SelectSeq(list, LAMBDA c : c \notin Unwrap(w.children[self]))
    ELSE list

push_children(w, self, list) ==
    LET kept == push_children_filter(w, self, list)
        evs == [i \in 1..Len(kept) |-> ChildAdded(kept[i], self)]
        w1 == UnidirectionalExt_insert_children_unidirectional(w, self, kept)
        w2 == insert_parent_each(w1, kept, self)
    IN push_events(w2, evs)

EntityMut_remove_children(w, self, list) == remove_children(self, list, w)

set_parent(w, self, parent) ==
    LET w1 == UnidirectionalExt_insert_parent_unidirectional(w, self, parent)
        w2 == insert_children_unidirectional(w1, <<self>>, parent)
    IN push_events(w2, <<ChildAdded(self, parent)>>)

\* Faulty variant of remove_parent: the removal is not reported.
remove_parent_silent(w, self, parent) ==
    LET w1 == UnidirectionalExt_remove_parent_unidirectional(w, self, parent)
    IN remove_children_unidirectional(w1, <<self>>, parent)

remove_parent(w, self, parent) ==
    LET w1 == UnidirectionalExt_remove_parent_unidirectional(w, self, parent)
        w2 == remove_children_unidirectional(w1, <<self>>, parent)
    IN push_events(w2, <<ChildRemoved(self, parent)>>)

\* Faulty variant of clear: the detachment from each parent is reported.
clear_emits_removed(w, self) ==
    LET ps == IF w.parents[self] = None THEN <<>> ELSE to_vec(Unwrap(w.parents[self]))
        w1 == clear_children_relation(<<self>>, w)
        w2 == clear_parents_relation(<<self>>, w1)
        w3 == push_events(w2, [i \in 1..Len(ps) |-> ChildRemoved(self, ps[i])])
    IN despawn(w3, self)

clear(w, self) ==
    LET w1 == clear_children_relation(<<self>>, w)
        w2 == clear_parents_relation(<<self>>, w1)
    IN despawn(w2, self)

\* ------------------------------------------------------- WorldChildBuilder
\* Faulty variant of spawn_empty: the new entity gets its Parents, the parent's
\* Children is left for the end of the scope.
spawn_empty_parent_only(w, parent) ==
    LET entity == w.next_id
        w1 == [w EXCEPT !.alive = @ \cup {entity},
                        !.next_id = @ + 1,
                        !.parents[entity] = Some({parent})]
    IN push_events(w1, <<ChildAdded(entity, parent)>>)

\* spawn / spawn_empty inside EntityMut::with_children: the new entity gets the
\* next identifier and Parents {parent}.
spawn_empty(w, parent) ==
    LET entity == w.next_id
        w1 == [w EXCEPT !.alive = @ \cup {entity},
                        !.next_id = @ + 1,
                        !.parents[entity] = Some({parent})]
        w2 == insert_children_unidirectional(w1, <<entity>>, parent)
    IN push_events(w2, <<ChildAdded(entity, parent)>>)

\* ------------------------------------------------------------- commands
AddChild_apply(w, parent, child) ==
    add_child(entity_mut(w, parent), parent, child)

MoveChild_apply(w, parent, child, new_parent) ==
    move_child(entity_mut(w, parent), parent, new_parent, child)

PushChildren_apply(w, parent, list) ==
    push_children(entity_mut(w, parent), parent, list)

MoveChildren_apply(w, parent, list, new_parent) ==
    move_children(entity_mut(w, parent), parent, new_parent, list)

RemoveChildren_apply(w, parent, list) == remove_children(parent, list, w)

RemoveParent_apply(w, child, parent) ==
    remove_parent(entity_mut(w, child), child, parent)

ClearChildren_apply(w, parent) ==
    LET w1 == entity_mut(w, parent)
        list == IF w1.children[parent] = None THEN <<>>
                ELSE to_vec(Unwrap(w1.children[parent]))
    IN remove_children(parent, list, w1)

ReplaceChildren_apply(w, parent, list) ==
    LET w1 == entity_mut(w, parent)
    IN IF w1.panicked THEN w1
       ELSE IF w1.children[parent] = None THEN Panic(w1)   \* .unwrap() on None
       ELSE LET replace == from_iter(list)
                cur == Unwrap(w1.children[parent])
                remove_different == to_vec(cur \ replace)
                insert_different == to_vec(replace \ cur)
                w2 == EntityMut_remove_children(w1, parent, remove_different)
            IN push_children(w2, parent, insert_different)

\* ------------------------------------------------------------- actions
\* Slices of at most MaxLen identifiers of existing entities (repeats allowed).
Slices(S) == UNION {[1..n -> S] : n \in 0..MaxLen}

Init ==
    /\ alive = 1..InitEntities
    /\ next_id = InitEntities + 1
    /\ children = [e \in Entities |-> None]
    /\ parents = [e \in Entities |-> None]
    /\ events = <<>>
    /\ has_events = TRUE
    /\ panicked = FALSE
    /\ queue = <<>>
    /\ applying = FALSE
    /\ reserved = {}
    /\ scope = None
    /\ immediate = World
    /\ iter = None

\* An operation can start: nothing runs after an abort, and the reader of the
\* event channel has drained it down to MaxPending events (the operations only
\* append to the channel and never read it).
CanStart ==
    /\ ~panicked
    /\ Len(events) <= MaxPending

\* The world becomes w.
Step(w) ==
    /\ CanStart
    /\ alive' = w.alive
    /\ next_id' = w.next_id
    /\ children' = w.children
    /\ parents' = w.parents
    /\ events' = w.events
    /\ has_events' = w.has_events
    /\ panicked' = w.panicked
    /\ immediate' = w
    /\ UNCHANGED <<queue, applying, reserved, scope, iter>>

AddChild ==
    \E p \in alive, c \in alive :
        Step(add_child(World, p, c))

SetParent ==
    \E c \in alive, p \in alive :
        Step(set_parent(World, c, p))

PushChildren ==
    \E p \in alive, l \in Slices(alive) :
        Step(push_children(World, p, l))

RemoveChildren ==
    \E p \in alive, l \in Slices(alive) :
        Step(EntityMut_remove_children(World, p, l))

RemoveParent ==
    \E c \in alive, p \in alive :
        Step(remove_parent(World, c, p))

MoveChild ==
    \E p \in alive, n \in alive, c \in alive :
        Step(move_child(World, p, n, c))

MoveChildren ==
    \E p \in alive, n \in alive, l \in Slices(alive) :
        Step(move_children(World, p, n, l))

Clear ==
    \E n \in alive :
        Step(clear(World, n))

\* One spawn_empty of a WorldChildBuilder inside with_children.
WithChildrenSpawn ==
    \E p \in alive :
        /\ next_id <= MaxEntities
        /\ Step(spawn_empty(World, p))

ClearChildren ==
    \E p \in alive :
        Step(ClearChildren_apply(World, p))

ReplaceChildren ==
    \E p \in alive, l \in Slices(alive) :
        Step(ReplaceChildren_apply(World, p, l))

\* The consumer of the event channel drains it, between two batches of commands.
DrainEvents ==
    /\ ~panicked
    /\ queue = <<>> /\ ~applying /\ scope = None
    /\ events # <<>>
    /\ events' = <<>>
    /\ immediate' = [immediate EXCEPT !.events = <<>>]
    /\ UNCHANGED <<alive, next_id, children, parents, has_events, panicked,
                   queue, applying, reserved, scope, iter>>

Next ==
    \/ AddChild
    \/ SetParent
    \/ PushChildren
    \/ RemoveChildren
    \/ RemoveParent
    \/ MoveChild
    \/ MoveChildren
    \/ Clear
    \/ WithChildrenSpawn
    \/ ClearChildren
    \/ ReplaceChildren
    \/ DrainEvents

Spec == Init /\ [][Next]_vars

\* ------------------------------------------------------- claim vocabulary
\* ChildSet / ParentSet of a node: the members of the component, empty when absent.
ChildSet(w, e) == IF w.children[e] = None THEN {} ELSE Unwrap(w.children[e])
ParentSet(w, e) == IF w.parents[e] = None THEN {} ELSE Unwrap(w.parents[e])

Symmetric(w) ==
    \A p \in Entities, c \in Entities :
        c \in ChildSet(w, p) <=> p \in ParentSet(w, c)

NoEmptySet(w) ==
    \A e \in Entities : w.children[e] # Some({}) /\ w.parents[e] # Some({})

\* Slices without a repeated identifier.
Distinct(l) == \A i \in 1..Len(l), j \in 1..Len(l) : l[i] = l[j] => i = j

\* Same relationship sets in two worlds.
SameSets(w1, w2) == w1.children = w2.children /\ w1.parents = w2.parents

\* C1: after every operation that returned, for every pair of nodes P, C:
\* C is in ChildSet(P) if and only if P is in ParentSet(C).
C1_Symmetry == ~panicked => Symmetric(World)

\* C2: no node carries a ChildSet or ParentSet that is present but empty.
C2_EmptyDeletion == ~panicked => NoEmptySet(World)

\* C3: Attach(p, c) applied twice leaves the sets as after the first application
\* and emits exactly one ChildAdded{c, p} in total: an add_child / set_parent
\* step on an edge that is already there changes no set and emits nothing.
C3_AttachIdempotent ==
    [][\A p \in alive, c \in alive :
        ( /\ c \in ChildSet(World, p)
          /\ p \in ParentSet(World, c)
          /\ \/ Step(add_child(World, p, c))
             \/ Step(set_parent(World, c, p)) )
        => /\ UNCHANGED <<children, parents>>
           /\ events' = events]_vars

\* C4: Detach(parent, child) invoked when child is not in ChildSet(parent)
\* changes no relationship set and emits no notification (remove_parent,
\* remove_children).
C4_DetachMissingNoop ==
    [][\A p \in alive, c \in alive :
        ( /\ c \notin ChildSet(World, p)
          /\ \/ Step(remove_parent(World, c, p))
             \/ Step(EntityMut_remove_children(World, p, <<c>>)) )
        => UNCHANGED <<children, parents, events>>]_vars

\* C5: Attach(p, c) on an absent edge adds c to ChildSet(p) and p to
\* ParentSet(c), creating either set if absent, and appends exactly
\* ChildAdded{c, p}; add_child(p, c) and set_parent(c, p) give the same result.
C5_AttachAbsentEdge ==
    CanStart =>
        \A p \in alive, c \in alive :
            c \notin ChildSet(World, p) =>
                LET w == add_child(World, p, c)
                IN /\ ~w.panicked
                   /\ w.children[p] = Some(ChildSet(World, p) \cup {c})
                   /\ w.parents[c] = Some(ParentSet(World, c) \cup {p})
                   /\ w.events = events \o <<ChildAdded(c, p)>>
                   /\ set_parent(World, c, p) = w

\* A state where C5's case arises: an absent edge between two existing nodes,
\* one of which has no component yet, and the attach creates it.
C5_Witness ==
    /\ CanStart
    /\ \E p \in alive, c \in alive :
        /\ p # c
        /\ c \notin ChildSet(World, p)
        /\ children[p] = None
        /\ parents[c] # None
        /\ add_child(World, p, c).children[p] = Some({c})
        /\ p \in ParentSet(add_child(World, p, c), c)

RECURSIVE NewOnes(_, _)
NewOnes(l, old) ==
    IF l = <<>> THEN <<>>
    ELSE IF Head(l) \in old THEN NewOnes(Tail(l), old)
         ELSE <<Head(l)>> \o NewOnes(Tail(l), old)

\* C8: BatchAttach(parent, children) with distinct identifiers leaves
\* ChildSet(parent) = old value united with children, adds parent to the
\* ParentSet of every listed child, emits one ChildAdded per child that was
\* not in ChildSet(parent) and none for the others; repeating the call emits
\* nothing and changes nothing.
C8_BatchAttach ==
    [][\A p \in alive, l \in Slices(alive) :
        (Distinct(l) /\ Step(push_children(World, p, l))) =>
            LET w == push_children(World, p, l)
                new == NewOnes(l, ChildSet(World, p))
            IN /\ ~w.panicked
               /\ ChildSet(w, p) = ChildSet(World, p) \cup from_iter(l)
               /\ \A c \in from_iter(l) : p \in ParentSet(w, c)
               /\ w.events = events \o [i \in 1..Len(new) |-> ChildAdded(new[i], p)]
               /\ push_children(w, p, l) = w]_vars

\* The listed children that are in ChildSet(parent), in input order.
RECURSIVE PresentOnes(_, _)
PresentOnes(l, old) ==
    IF l = <<>> THEN <<>>
    ELSE IF Head(l) \in old THEN <<Head(l)>> \o PresentOnes(Tail(l), old)
         ELSE PresentOnes(Tail(l), old)

\* The permutations of a slice.
Permutations_of(l) ==
    {m \in [1..Len(l) -> from_iter(l)] :
        \E f \in [1..Len(l) -> 1..Len(l)] :
            /\ \A i \in 1..Len(l), j \in 1..Len(l) : f[i] = f[j] => i = j
            /\ \A i \in 1..Len(l) : m[i] = l[f[i]]}

C10_ClearAllChildren ==
    [][\A p \in alive :
        Step(ClearChildren_apply(World, p)) =>
            LET w == ClearChildren_apply(World, p)
                old == to_vec(ChildSet(World, p))
            IN /\ ~w.panicked
               /\ w.children[p] = None
               /\ \A c \in ChildSet(World, p) :
                      w.parents[c] = IF ParentSet(World, c) \subseteq {p} THEN None
                                     ELSE Some(ParentSet(World, c) \ {p})
               /\ w.events = events \o [i \in 1..Len(old) |-> ChildRemoved(old[i], p)]
               /\ (children[p] = None => w = World)]_vars

\* C11: ReplaceAllChildren(p, new) when p has a ChildSet old results in
\* ChildSet(p) = new; children only in old lose p from their ParentSet with a
\* ChildRemoved each, children only in new gain p with a ChildAdded each, and
\* children in both keep their ParentSet and generate no event.
C11_ReplacePrecision ==
    [][\A p \in alive, l \in Slices(alive) :
        (children[p] # None /\ Step(ReplaceChildren_apply(World, p, l))) =>
            LET w == ReplaceChildren_apply(World, p, l)
                old == ChildSet(World, p)
                new == from_iter(l)
                out == to_vec(old \ new)
                in == to_vec(new \ old)
            IN /\ ~w.panicked
               /\ ChildSet(w, p) = new
               /\ \A c \in old \ new : ParentSet(w, c) = ParentSet(World, c) \ {p}
               /\ \A c \in new \ old : ParentSet(w, c) = ParentSet(World, c) \cup {p}
               /\ \A c \in old \cap new : w.parents[c] = parents[c]
               /\ w.events = events
                             \o [i \in 1..Len(out) |-> ChildRemoved(out[i], p)]
                             \o [i \in 1..Len(in) |-> ChildAdded(in[i], p)]]_vars

\* C12: ReplaceAllChildren(p, new) replaces the children of p for every prior
\* state of p: when p has no ChildSet the command completes and leaves
\* ChildSet(p) = new, and when new is empty it leaves ChildSet(p) absent.
C12_ReplaceAnyPriorState ==
    [][\A p \in alive, l \in Slices(alive) :
        Step(ReplaceChildren_apply(World, p, l)) =>
            /\ ~panicked'
            /\ children'[p] = IF l = <<>> THEN None ELSE Some(from_iter(l))]_vars

\* What C13 says of one world w reached from the current one by moving the
\* children in list from old_parent to new_parent.
Moved(w, old_parent, new_parent, list) ==
    LET rest == ChildSet(World, old_parent) \ from_iter(list)
    IN /\ ~w.panicked
       /\ w.children[old_parent] = IF rest = {} THEN None ELSE Some(rest)
       /\ w.children[new_parent] =
              Some(ChildSet(World, new_parent) \cup from_iter(list))
       /\ \A c \in from_iter(list) :
              w.parents[c] = Some((ParentSet(World, c) \ {old_parent}) \cup {new_parent})
       /\ \A e \in Entities :
              /\ e \notin {old_parent, new_parent} => w.children[e] = children[e]
              /\ e \notin from_iter(list) => w.parents[e] = parents[e]

C14_MoveSilent ==
    /\ \A i \in 1..Len(events) : events[i].kind \in {"ChildAdded", "ChildRemoved"}
    /\ CanStart =>
           \A p \in alive, n \in alive, l \in Slices(alive) :
               /\ move_children(World, p, n, l).events = events
               /\ \A c \in alive : move_child(World, p, n, c).events = events

\* A move that returns and changes the relationship sets.
C14_Witness ==
    /\ CanStart
    /\ \E p \in alive, n \in alive, c \in alive :
           /\ p # n
           /\ c \in ChildSet(World, p)
           /\ ~move_child(World, p, n, c).panicked
           /\ c \in ChildSet(move_child(World, p, n, c), n)
           /\ c \notin ChildSet(move_child(World, p, n, c), p)
           /\ ~move_children(World, p, n, <<c>>).panicked
           /\ ~SameSets(move_children(World, p, n, <<c>>), World)

\* C15: no dangling references: with nodes destroyed only through clear, every
\* identifier in any ChildSet or ParentSet is that of a node that still exists.
C15_NoDangling ==
    ~panicked =>
        \A e \in Entities :
            ChildSet(World, e) \cup ParentSet(World, e) \subseteq alive

\* ------------------------------------------- commands on any identifiers
\* The commands are built from identifiers the caller holds, existing or not
\* (never spawned, or destroyed by clear), and applied to the world.
RunAddChild ==
    \E p \in Entities, c \in Entities :
        Step(AddChild_apply(World, p, c))

RunMoveChild ==
    \E p \in Entities, n \in Entities, c \in Entities :
        Step(MoveChild_apply(World, p, c, n))

RunPushChildren ==
    \E p \in Entities, l \in Slices(Entities) :
        Step(PushChildren_apply(World, p, l))

RunMoveChildren ==
    \E p \in Entities, n \in Entities, l \in Slices(Entities) :
        Step(MoveChildren_apply(World, p, l, n))

RunRemoveChildren ==
    \E p \in Entities, l \in Slices(Entities) :
        Step(RemoveChildren_apply(World, p, l))

RunRemoveParent ==
    \E c \in Entities, p \in Entities :
        Step(RemoveParent_apply(World, c, p))

RunClearChildren ==
    \E p \in Entities :
        Step(ClearChildren_apply(World, p))

RunReplaceChildren ==
    \E p \in Entities, l \in Slices(Entities) :
        Step(ReplaceChildren_apply(World, p, l))

\* world.entity_mut(n).clear() on any identifier.
RunClear ==
    \E n \in Entities :
        Step(clear(entity_mut(World, n), n))

NextInvalid ==
    \/ RunAddChild
    \/ RunMoveChild
    \/ RunPushChildren
    \/ RunMoveChildren
    \/ RunRemoveChildren
    \/ RunRemoveParent
    \/ RunClearChildren
    \/ RunReplaceChildren
    \/ RunClear
    \/ WithChildrenSpawn
    \/ DrainEvents

SpecInvalid == Init /\ [][NextInvalid]_vars

\* Some identifier of ids is not in the store.
Stale(ids) == ~(ids \subseteq alive)

\* C16: every operation or command invoked with an identifier that does not
\* exist in the store (as parent, child, old parent or new parent) aborts
\* instead of returning normally.
C16_InvalidIdFatal ==
    [][/\ \A p \in Entities, c \in Entities :
              Stale({p, c}) =>
                  /\ Step(AddChild_apply(World, p, c)) => panicked'
                  /\ Step(RemoveParent_apply(World, c, p)) => panicked'
       /\ \A p \in Entities, n \in Entities, c \in Entities :
              (Stale({p, n, c}) /\ Step(MoveChild_apply(World, p, c, n))) => panicked'
       /\ \A p \in Entities, l \in Slices(Entities) :
              Stale({p} \cup from_iter(l)) =>
                  /\ Step(PushChildren_apply(World, p, l)) => panicked'
                  /\ Step(RemoveChildren_apply(World, p, l)) => panicked'
                  /\ Step(ReplaceChildren_apply(World, p, l)) => panicked'
       /\ \A p \in Entities, n \in Entities, l \in Slices(Entities) :
              (Stale({p, n} \cup from_iter(l)) /\ Step(MoveChildren_apply(World, p, l, n)))
                  => panicked'
       /\ \A p \in Entities :
              Stale({p}) =>
                  /\ Step(ClearChildren_apply(World, p)) => panicked'
                  /\ Step(clear(entity_mut(World, p), p)) => panicked']_vars

\* ------------------------------------------- a world without event channel
\* World::new() without insert_resource(Events::<HierarchyEvent>::default()).
InitNoEvents ==
    /\ alive = 1..InitEntities
    /\ next_id = InitEntities + 1
    /\ children = [e \in Entities |-> None]
    /\ parents = [e \in Entities |-> None]
    /\ events = <<>>
    /\ has_events = FALSE
    /\ panicked = FALSE
    /\ queue = <<>>
    /\ applying = FALSE
    /\ reserved = {}
    /\ scope = None
    /\ immediate = World
    /\ iter = None

\* The operations of Next; nothing is ever there to drain.
NextNoEvents ==
    \/ AddChild
    \/ SetParent
    \/ PushChildren
    \/ RemoveChildren
    \/ RemoveParent
    \/ MoveChild
    \/ MoveChildren
    \/ Clear
    \/ WithChildrenSpawn
    \/ ClearChildren
    \/ ReplaceChildren

SpecNoEvents == InitNoEvents /\ [][NextNoEvents]_vars

\* The current world with an event channel registered.
WithChannel == [World EXCEPT !.has_events = TRUE]

\* a is the outcome without channel of the operation whose outcome with the
\* channel is b: nothing emitted, the same abort or return, the same store.
SameButEvents(a, b) ==
    /\ a.events = <<>>
    /\ a.panicked = b.panicked
    /\ a.alive = b.alive
    /\ a.next_id = b.next_id
    /\ SameSets(a, b)

\* C17: when no event channel is registered, every operation completes without
\* error where it does with a channel, emits nothing, and changes the ChildSets
\* and ParentSets exactly as it does when a channel is registered.
C17_ChannelOptional ==
    /\ events = <<>>
    /\ (~has_events /\ CanStart) =>
        /\ \A p \in alive, c \in alive :
            /\ SameButEvents(add_child(World, p, c), add_child(WithChannel, p, c))
            /\ SameButEvents(set_parent(World, c, p), set_parent(WithChannel, c, p))
            /\ SameButEvents(remove_parent(World, c, p), remove_parent(WithChannel, c, p))
            /\ \A n \in alive :
                SameButEvents(move_child(World, p, n, c), move_child(WithChannel, p, n, c))
        /\ \A p \in alive, l \in Slices(alive) :
            /\ SameButEvents(push_children(World, p, l), push_children(WithChannel, p, l))
            /\ SameButEvents(EntityMut_remove_children(World, p, l),
                             EntityMut_remove_children(WithChannel, p, l))
            /\ SameButEvents(ReplaceChildren_apply(World, p, l),
                             ReplaceChildren_apply(WithChannel, p, l))
            /\ \A n \in alive :
                SameButEvents(move_children(World, p, n, l),
                              move_children(WithChannel, p, n, l))
        /\ \A p \in alive :
            /\ SameButEvents(clear(World, p), clear(WithChannel, p))
            /\ SameButEvents(ClearChildren_apply(World, p), ClearChildren_apply(WithChannel, p))
            /\ next_id <= MaxEntities =>
                   SameButEvents(spawn_empty(World, p), spawn_empty(WithChannel, p))

\* Without channel, an attach and a detach that return, change the sets, and
\* would have emitted an event each with a channel.
C17_Witness ==
    /\ ~has_events /\ CanStart
    /\ \E p \in alive, c \in alive :
           /\ c \notin ChildSet(World, p)
           /\ ~add_child(World, p, c).panicked
           /\ c \in ChildSet(add_child(World, p, c), p)
           /\ add_child(WithChannel, p, c).events = <<ChildAdded(c, p)>>
    /\ \E p \in alive, c \in alive :
           /\ c \in ChildSet(World, p)
           /\ ~EntityMut_remove_children(World, p, <<c>>).panicked
           /\ c \notin ChildSet(EntityMut_remove_children(World, p, <<c>>), p)
           /\ EntityMut_remove_children(WithChannel, p, <<c>>).events = <<ChildRemoved(c, p)>>

\* ------------------------------------------------------- deferred mode
\* The command structs.
Cmd_AddChild(parent, child) == [cmd |-> "AddChild", parent |-> parent, child |-> child]
Cmd_MoveChild(parent, child, new_parent) ==
    [cmd |-> "MoveChild", parent |-> parent, child |-> child, new_parent |-> new_parent]
Cmd_PushChildren(parent, list) ==
    [cmd |-> "PushChildren", parent |-> parent, children |-> list]
Cmd_MoveChildren(parent, list, new_parent) ==
    [cmd |-> "MoveChildren", parent |-> parent, children |-> list,
     new_parent |-> new_parent]
Cmd_RemoveChildren(parent, list) ==
    [cmd |-> "RemoveChildren", parent |-> parent, children |-> list]
Cmd_ClearChildren(parent) == [cmd |-> "ClearChildren", parent |-> parent]
Cmd_ReplaceChildren(parent, list) ==
    [cmd |-> "ReplaceChildren", parent |-> parent, children |-> list]
Cmd_RemoveParent(child, parent) ==
    [cmd |-> "RemoveParent", child |-> child, parent |-> parent]

\* Command::apply of the command c.
Command_apply(w, c) ==
    CASE c.cmd = "AddChild" -> AddChild_apply(w, c.parent, c.child)
      [] c.cmd = "MoveChild" -> MoveChild_apply(w, c.parent, c.child, c.new_parent)
      [] c.cmd = "PushChildren" -> PushChildren_apply(w, c.parent, c.children)
      [] c.cmd = "MoveChildren" ->
             MoveChildren_apply(w, c.parent, c.children, c.new_parent)
      [] c.cmd = "RemoveChildren" -> RemoveChildren_apply(w, c.parent, c.children)
      [] c.cmd = "ClearChildren" -> ClearChildren_apply(w, c.parent)
      [] c.cmd = "ReplaceChildren" -> ReplaceChildren_apply(w, c.parent, c.children)
      [] c.cmd = "RemoveParent" -> RemoveParent_apply(w, c.child, c.parent)

\* The commands of q applied to w one after the other, first to last.
RECURSIVE apply_all(_, _)
apply_all(w, q) ==
    IF q = <<>> THEN w ELSE apply_all(Command_apply(w, Head(q)), Tail(q))

\* Faulty variant of Commands_add: the command goes to the front of the queue.
Commands_add_front(q, c) == <<c>> \o q

\* Commands::add: the command goes to the back of the queue.
Commands_add(q, c) == Append(q, c)

\* Faulty variant of EntityCommands_set_parent: parent and child change places.
set_parent_swapped(self, parent) == Cmd_AddChild(self, parent)

\* BuildChildren for EntityCommands: the command each method adds.
EntityCommands_push_children(self, list) == Cmd_PushChildren(self, list)
EntityCommands_move_children(self, new_parent, list) ==
    Cmd_MoveChildren(self, list, new_parent)
EntityCommands_remove_children(self, list) == Cmd_RemoveChildren(self, list)
EntityCommands_move_child(self, new_parent, child) ==
    Cmd_MoveChild(self, child, new_parent)
EntityCommands_add_child(self, child) == Cmd_AddChild(self, child)
EntityCommands_clear_children(self) == Cmd_ClearChildren(self)
EntityCommands_replace_children(self, list) == Cmd_ReplaceChildren(self, list)
EntityCommands_set_parent(self, parent) == Cmd_AddChild(parent, self)
EntityCommands_remove_parent(self, parent) == Cmd_RemoveParent(self, parent)

\* The command c is added to the queue; w is what the operation it stands for
\* makes of the World when it is invoked at once instead. The events of the
\* pass before have been drained (see CanStart).
Enqueue(c, w) ==
    /\ CanStart /\ ~applying /\ scope = None
    /\ Len(queue) < MaxQueue
    /\ queue' = Commands_add(queue, c)
    /\ immediate' = w
    /\ UNCHANGED <<alive, next_id, children, parents, events, has_events, panicked,
                   applying, reserved, scope, iter>>

EnqueueAddChild ==
    \E p \in alive, c \in alive :
        Enqueue(EntityCommands_add_child(p, c), add_child(immediate, p, c))

EnqueueSetParent ==
    \E c \in alive, p \in alive :
        Enqueue(EntityCommands_set_parent(c, p), set_parent(immediate, c, p))

EnqueuePushChildren ==
    \E p \in alive, l \in Slices(alive) :
        Enqueue(EntityCommands_push_children(p, l), push_children(immediate, p, l))

EnqueueRemoveChildren ==
    \E p \in alive, l \in Slices(alive) :
        Enqueue(EntityCommands_remove_children(p, l),
                EntityMut_remove_children(immediate, p, l))

EnqueueRemoveParent ==
    \E c \in alive, p \in alive :
        Enqueue(EntityCommands_remove_parent(c, p), remove_parent(immediate, c, p))

EnqueueMoveChild ==
    \E p \in alive, n \in alive, c \in alive :
        Enqueue(EntityCommands_move_child(p, n, c), move_child(immediate, p, n, c))

EnqueueMoveChildren ==
    \E p \in alive, n \in alive, l \in Slices(alive) :
        Enqueue(EntityCommands_move_children(p, n, l),
                move_children(immediate, p, n, l))

\* clear_children and replace_children exist in deferred mode only.
EnqueueClearChildren ==
    \E p \in alive :
        Enqueue(EntityCommands_clear_children(p), ClearChildren_apply(immediate, p))

EnqueueReplaceChildren ==
    \E p \in alive, l \in Slices(alive) :
        Enqueue(EntityCommands_replace_children(p, l),
                ReplaceChildren_apply(immediate, p, l))

\* CommandQueue::apply starts: the reserved entities are flushed into the World.
BeginApply ==
    /\ ~panicked /\ ~applying /\ scope = None
    /\ queue # <<>>
    /\ applying' = TRUE
    /\ alive' = alive \cup reserved
    /\ reserved' = {}
    /\ UNCHANGED <<next_id, children, parents, events, has_events, panicked,
                   queue, scope, immediate, iter>>

\* Faulty variant of next_command: the newest command is taken first.
newest_command(q) == [this |-> q[Len(q)], rest |-> SubSeq(q, 1, Len(q) - 1)]

\* The command CommandQueue::apply takes next, and the commands it leaves.
next_command(q) == [this |-> Head(q), rest |-> Tail(q)]

\* CommandQueue::apply runs one command; a panic of the command ends the pass.
ApplyNext ==
    /\ ~panicked /\ applying
    /\ queue # <<>>
    /\ LET nc == next_command(queue)
           w == Command_apply(World, nc.this)
       IN /\ alive' = w.alive
          /\ next_id' = w.next_id
          /\ children' = w.children
          /\ parents' = w.parents
          /\ events' = w.events
          /\ has_events' = w.has_events
          /\ panicked' = w.panicked
          /\ queue' = nc.rest
          /\ applying' = (nc.rest # <<>> /\ ~w.panicked)
    /\ UNCHANGED <<reserved, scope, immediate, iter>>

NextDeferred ==
    \/ EnqueueAddChild
    \/ EnqueueSetParent
    \/ EnqueuePushChildren
    \/ EnqueueRemoveChildren
    \/ EnqueueRemoveParent
    \/ EnqueueMoveChild
    \/ EnqueueMoveChildren
    \/ EnqueueClearChildren
    \/ EnqueueReplaceChildren
    \/ BeginApply
    \/ ApplyNext
    \/ DrainEvents

SpecDeferred == Init /\ [][NextDeferred]_vars

\* Two worlds with the same relationship sets, event log and abort.
SameOutcome(a, b) ==
    /\ SameSets(a, b)
    /\ a.events = b.events
    /\ a.panicked = b.panicked

\* C18: enqueuing a sequence of operations as commands and running the apply
\* pass yields the same ChildSets, ParentSets and event log as invoking the
\* immediate operations in the same order on the same starting store.
C18_DeferredEqualsImmediate ==
    (queue = <<>> /\ ~applying) => SameOutcome(World, immediate)

\* A pass of two commands has run: the first attached an edge, the second
\* detached one.
C18_Witness ==
    /\ queue = <<>> /\ ~applying /\ ~panicked
    /\ \E c \in alive, p \in alive, q \in alive, d \in alive :
           /\ c # p
           /\ events = <<ChildAdded(c, p), ChildRemoved(d, q)>>
           /\ p \in ParentSet(World, c)
           /\ c \in ChildSet(World, p)

\* C19: enqueuing a command leaves every ChildSet, ParentSet and the event log
\* unchanged until the apply pass runs, and the apply pass executes the
\* commands in enqueue order: at every moment, the commands still queued
\* applied in queue order to the World give the sequential composition of the
\* operations in the order they were enqueued.
C19_DeferredExecution ==
    [][/\ Len(queue') > Len(queue) =>
              UNCHANGED <<alive, children, parents, events, panicked>>
       /\ SameOutcome(apply_all(World', queue'), immediate')]_vars

\* Two commands that do not commute are queued and nothing has been applied.
C19_Witness ==
    /\ ~applying /\ Len(queue) = 2
    /\ ~immediate.panicked
    /\ ~SameSets(apply_all(World, queue), apply_all(World, <<queue[2], queue[1]>>))
    /\ ~SameSets(World, immediate)

\* ------------------------------------------------------ deferred builder
\* The ChildBuilder that EntityCommands::with_children hands to its closure.
ChildBuilder_new(parent) == [parent |-> parent, children |-> <<>>]

\* Faulty variant of ChildBuilder_spawn_empty: the new entity is not noted.
spawn_empty_drops_child(builder, e) == builder

\* ChildBuilder::spawn_empty / spawn: the new entity joins push_children.children.
ChildBuilder_spawn_empty(builder, e) == [builder EXCEPT !.children = Append(@, e)]

\* A World with ScopeEntities entities and the event channel.
InitBuilder ==
    /\ alive = 1..ScopeEntities
    /\ next_id = ScopeEntities + 1
    /\ children = [e \in Entities |-> None]
    /\ parents = [e \in Entities |-> None]
    /\ events = <<>>
    /\ has_events = TRUE
    /\ panicked = FALSE
    /\ queue = <<>>
    /\ applying = FALSE
    /\ reserved = {}
    /\ scope = None
    /\ immediate = World
    /\ iter = None

\* commands.entity(p).with_children(..) starts: the builder is made.
BeginScope ==
    \E p \in alive :
        /\ CanStart /\ ~applying /\ scope = None
        /\ Len(queue) < MaxQueue
        /\ scope' = Some(ChildBuilder_new(p))
        /\ UNCHANGED <<alive, next_id, children, parents, events, has_events,
                       panicked, queue, applying, reserved, immediate, iter>>

\* One spawn_empty of the ChildBuilder inside the closure: Commands::spawn_empty
\* reserves the identifier, the World is not touched. At once, the same spawn
\* is WorldChildBuilder::spawn_empty.
ScopeSpawn ==
    /\ scope # None
    /\ next_id <= MaxEntities
    /\ next_id' = next_id + 1
    /\ reserved' = reserved \cup {next_id}
    /\ scope' = Some(ChildBuilder_spawn_empty(Unwrap(scope), next_id))
    /\ immediate' = spawn_empty(immediate, Unwrap(scope).parent)
    /\ UNCHANGED <<alive, children, parents, events, has_events, panicked,
                   queue, applying, iter>>

\* The builder of the with_children call whose closure made this one, if any:
\* the scope that continues when this one ends.
Enclosing(builder) ==
    IF "outer" \in DOMAIN builder THEN Some(builder.outer) ELSE None

\* Faulty variant of EndScope: the builder's PushChildren is put in front of
\* the commands queued so far.
EndScope_batch_first ==
    /\ scope # None
    /\ queue' = <<Cmd_PushChildren(Unwrap(scope).parent, Unwrap(scope).children)>>
                    \o queue
    /\ scope' = Enclosing(Unwrap(scope))
    /\ UNCHANGED <<alive, next_id, children, parents, events, has_events,
                   panicked, applying, reserved, immediate, iter>>

\* The closure returns: with_children adds the builder's PushChildren.
EndScope ==
    /\ scope # None
    /\ queue' = Commands_add(queue, Cmd_PushChildren(Unwrap(scope).parent,
                                                     Unwrap(scope).children))
    /\ scope' = Enclosing(Unwrap(scope))
    /\ UNCHANGED <<alive, next_id, children, parents, events, has_events,
                   panicked, applying, reserved, immediate, iter>>

NextBuilder ==
    \/ BeginScope
    \/ ScopeSpawn
    \/ EndScope
    \/ BeginApply
    \/ ApplyNext
    \/ DrainEvents

SpecBuilder == InitBuilder /\ [][NextBuilder]_vars

\* C20: a with_children scope that spawns k nodes enqueues exactly one
\* batch-attach command for the scope (not one per node); after the apply pass
\* ChildSet(parent) contains all k spawned nodes, each spawned node has parent
\* in its ParentSet, and exactly one ChildAdded per spawned node was emitted.
C20_DeferredBuilder ==
    [][/\ (scope # None /\ scope' # None) =>
              /\ queue' = queue
              /\ Unwrap(scope').parent = Unwrap(scope).parent
              /\ Unwrap(scope').children = Append(Unwrap(scope).children, next_id)
              /\ UNCHANGED <<alive, children, parents, events>>
       /\ (scope # None /\ scope' = None) =>
              /\ queue' = Append(queue, Cmd_PushChildren(Unwrap(scope).parent,
                                                         Unwrap(scope).children))
              /\ UNCHANGED <<alive, children, parents, events>>
       /\ (applying /\ queue # <<>> /\ queue' = Tail(queue)) =>
              LET parent == Head(queue).parent
                  spawned == Head(queue).children
              IN /\ ~panicked'
                 /\ from_iter(spawned) \subseteq ChildSet(World', parent)
                 /\ \A c \in from_iter(spawned) : parent \in ParentSet(World', c)
                 /\ events' = events \o [i \in 1..Len(spawned) |->
                                            ChildAdded(spawned[i], parent)]]_vars

\* The pass of one scope that spawned two nodes has run.
C20_Witness ==
    /\ queue = <<>> /\ ~applying /\ scope = None /\ ~panicked
    /\ \E p \in alive, a \in alive, b \in alive :
           /\ a # b
           /\ events = <<ChildAdded(a, p), ChildAdded(b, p)>>
           /\ ChildSet(World, p) = {a, b}
           /\ ParentSet(World, a) = {p}
           /\ ParentSet(World, b) = {p}

\* C21: each spawn / spawn_empty of the immediate builder, as soon as it
\* returns, has created the node with ParentSet = {parent}, has added it to
\* ChildSet(parent) (creating the set if absent) and has emitted exactly one
\* ChildAdded{node, parent}; the new edge is there in both directions after
\* each spawn, and a symmetric store is symmetric again after the spawn.
C21_ImmediateBuilder ==
    (CanStart /\ next_id <= MaxEntities) =>
        \A p \in alive :
            LET w == spawn_empty(World, p)
                node == next_id
            IN /\ ~w.panicked
               /\ w.alive = alive \cup {node}
               /\ w.parents[node] = Some({p})
               /\ w.children[node] = None
               /\ w.children[p] = Some(ChildSet(World, p) \cup {node})
               /\ w.events = events \o <<ChildAdded(node, p)>>
               /\ \A e \in Entities :
                      /\ e # p => w.children[e] = children[e]
                      /\ e # node => w.parents[e] = parents[e]
                      /\ node \in ChildSet(w, e) <=> e \in ParentSet(w, node)
                      /\ e \in ChildSet(w, node) <=> node \in ParentSet(w, e)
               /\ Symmetric(World) => Symmetric(w)

\* A spawn under a parent that has no Children yet, and a spawn under a parent
\* that has children already.
C21_Witness ==
    /\ CanStart /\ next_id <= MaxEntities
    /\ \E p \in alive :
           /\ children[p] = None
           /\ spawn_empty(World, p).children[p] = Some({next_id})
    /\ \E p \in alive :
           /\ ChildSet(World, p) # {}
           /\ ChildSet(World, p) \subseteq alive
           /\ Cardinality(ChildSet(spawn_empty(World, p), p)) >= 2

\* The set s without node, as a component: removed when nothing is left.
Without(s, node) == IF s \ {node} = {} THEN None ELSE Some(s \ {node})

\* C27: clear(node) changes, among the surviving nodes, only the ChildSets of
\* node's former parents and the ParentSets of node's former children, and
\* only by removing node from them (deleting a set that becomes empty); every
\* other relationship set of every surviving node, the ParentSets of node's
\* former parents included, is left unchanged.
C27_ClearFrame ==
    [][\A node \in alive :
        Step(clear(World, node)) =>
            /\ ~panicked'
            /\ \A e \in Entities \ {node} :
                   /\ children'[e] = IF e \in ParentSet(World, node)
                                     THEN Without(ChildSet(World, e), node)
                                     ELSE children[e]
                   /\ parents'[e] = IF e \in ChildSet(World, node)
                                    THEN Without(ParentSet(World, e), node)
                                    ELSE parents[e]]_vars

\* C28: clear(node) emits no notification: the event log is unchanged by
\* clear, whatever parents and children node has.
C28_ClearSilent ==
    CanStart => \A node \in alive : clear(World, node).events = events

\* A node with a parent and a child is cleared, and the clear returns.
C28_Witness ==
    /\ CanStart
    /\ \E node \in alive, p \in alive, c \in alive :
           /\ Cardinality({node, p, c}) = 3
           /\ p \in ParentSet(World, node) /\ node \in ChildSet(World, p)
           /\ c \in ChildSet(World, node) /\ node \in ParentSet(World, c)
           /\ ~clear(World, node).panicked
           /\ node \notin ChildSet(clear(World, node), p)
           /\ node \notin ParentSet(clear(World, node), c)

\* ------------------------------------------- DescendantIter / AncestorIter
\* query.get(entity).into_iter().flatten(): the members of the entity's
\* component, nothing for an entity without the component.
get_flatten(query, entity) ==
    IF query[entity] = None THEN {} ELSE Unwrap(query[entity])

\* Faulty variant of pop_first: the largest identifier is taken.
pop_last(s) == CHOOSE x \in s : \A y \in s : y <= x

\* BTreeSet::pop_first of a set that is not empty: the smallest identifier.
pop_first(s) == CHOOSE x \in s : \A y \in s : x <= y

DescendantIter_new(children_query, entity) ==
    [visited |-> {}, nexts |-> get_flatten(children_query, entity)]

\* Faulty variant of DescendantIter_next: the visited set is not consulted.
DescendantIter_next_unfiltered(self, children_query) ==
    IF self.nexts # {}
    THEN LET entity == pop_first(self.nexts)
         IN [self |-> [visited |-> self.visited \cup {entity},
                       nexts |-> (self.nexts \ {entity})
                                 \cup get_flatten(children_query, entity)],
             item |-> Some(entity)]
    ELSE [self |-> self, item |-> None]

\* Faulty variant of DescendantIter_next: when the frontier is exhausted the
\* iterator rewinds, the entities visited become the frontier again.
DescendantIter_next_rewinds(self, children_query) ==
    IF self.nexts # {}
    THEN LET entity == pop_first(self.nexts)
             visited == self.visited \cup {entity}
             nexts == {node \in get_flatten(children_query, entity) :
                          node \notin visited}
         IN [self |-> [visited |-> visited,
                       nexts |-> (self.nexts \ {entity}) \cup nexts],
             item |-> Some(entity)]
    ELSE [self |-> [visited |-> {}, nexts |-> self.visited], item |-> None]

\* Iterator::next: the iterator afterwards and the item returned.
DescendantIter_next(self, children_query) ==
    IF self.nexts # {}
    THEN LET entity == pop_first(self.nexts)
             visited == self.visited \cup {entity}
             nexts == {node \in get_flatten(children_query, entity) :
                          node \notin visited}
         IN [self |-> [visited |-> visited,
                       nexts |-> (self.nexts \ {entity}) \cup nexts],
             item |-> Some(entity)]
    ELSE [self |-> self, item |-> None]

AncestorIter_new(parent_query, entity) ==
    [visited |-> {}, nexts |-> get_flatten(parent_query, entity)]

\* Faulty variant of AncestorIter_next: the yielded entity is not recorded as
\* visited.
AncestorIter_next_forgetful(self, parent_query) ==
    IF self.nexts # {}
    THEN LET entity == pop_first(self.nexts)
             nexts == {node \in get_flatten(parent_query, entity) :
                          node \notin self.visited}
         IN [self |-> [visited |-> self.visited,
                       nexts |-> (self.nexts \ {entity}) \cup nexts],
             item |-> Some(entity)]
    ELSE [self |-> self, item |-> None]

AncestorIter_next(self, parent_query) ==
    IF self.nexts # {}
    THEN LET entity == pop_first(self.nexts)
             visited == self.visited \cup {entity}
             nexts == {node \in get_flatten(parent_query, entity) :
                          node \notin visited}
         IN [self |-> [visited |-> visited,
                       nexts |-> (self.nexts \ {entity}) \cup nexts],
             item |-> Some(entity)]
    ELSE [self |-> self, item |-> None]

\* The items of an iterator, gathered until it returns None (collect()).
RECURSIVE DescendantIter_collect(_, _)
DescendantIter_collect(self, children_query) ==
    LET r == DescendantIter_next(self, children_query)
    IN IF r.item = None THEN <<>>
       ELSE <<Unwrap(r.item)>> \o DescendantIter_collect(r.self, children_query)

RECURSIVE AncestorIter_collect(_, _)
AncestorIter_collect(self, parent_query) ==
    LET r == AncestorIter_next(self, parent_query)
    IN IF r.item = None THEN <<>>
       ELSE <<Unwrap(r.item)>> \o AncestorIter_collect(r.self, parent_query)

\* HierarchyQueryExt on Query<&Children> / Query<&Parents> of the world w.
iter_descendants(w, entity) ==
    DescendantIter_collect(DescendantIter_new(w.children, entity), w.children)

iter_ancestors(w, entity) ==
    AncestorIter_collect(AncestorIter_new(w.parents, entity), w.parents)

\* The hierarchies handed to the iterators: MaxNodes entities and any set of
\* at most MaxEdges edges (self-parenting and cycles included, which add_child
\* accepts), with Children and Parents as the attach operations leave them.
Nodes == 1..MaxNodes

Graphs == {E \in SUBSET (Nodes \X Nodes) : Cardinality(E) <= MaxEdges}

Component(s) == IF s = {} THEN None ELSE Some(s)

InitTraversal ==
    \E E \in Graphs :
        /\ alive = Nodes
        /\ next_id = MaxNodes + 1
        /\ children = [p \in Nodes |-> Component({c \in Nodes : <<p, c>> \in E})]
        /\ parents = [c \in Nodes |-> Component({p \in Nodes : <<p, c>> \in E})]
        /\ events = <<>>
        /\ has_events = TRUE
        /\ panicked = FALSE
        /\ queue = <<>>
        /\ applying = FALSE
        /\ reserved = {}
        /\ scope = None
        /\ immediate = World
        /\ iter = None

\* The iterator being consumed: the struct (self), with the argument of new
\* and the items returned so far kept beside it.
IterRecord(kind, entity, self) ==
    [kind |-> kind, entity |-> entity, self |-> self, result |-> <<>>, done |-> FALSE]

\* children_query.iter_descendants(entity)
IterDescendants ==
    \E entity \in alive :
        /\ iter = None
        /\ iter' = Some(IterRecord("Descendant", entity,
                                   DescendantIter_new(children, entity)))
        /\ UNCHANGED <<alive, next_id, children, parents, events, has_events,
                       panicked, queue, applying, reserved, scope, immediate>>

\* parent_query.iter_ancestors(entity)
IterAncestors ==
    \E entity \in alive :
        /\ iter = None
        /\ iter' = Some(IterRecord("Ancestor", entity,
                                   AncestorIter_new(parents, entity)))
        /\ UNCHANGED <<alive, next_id, children, parents, events, has_events,
                       panicked, queue, applying, reserved, scope, immediate>>

\* One call of next on the iterator, until it has returned None.
IterNext ==
    /\ iter # None
    /\ ~Unwrap(iter).done
    /\ LET it == Unwrap(iter)
           r == IF it.kind = "Descendant"
                THEN DescendantIter_next(it.self, children)
                ELSE AncestorIter_next(it.self, parents)
       IN iter' = Some([it EXCEPT !.self = r.self,
                                  !.result = IF r.item = None THEN @
                                             ELSE Append(@, Unwrap(r.item)),
                                  !.done = (r.item = None)])
    /\ UNCHANGED <<alive, next_id, children, parents, events, has_events,
                   panicked, queue, applying, reserved, scope, immediate>>

NextTraversal ==
    \/ IterDescendants
    \/ IterAncestors
    \/ IterNext

SpecTraversal == InitTraversal /\ [][NextTraversal]_vars

\* The query the iterator being consumed reads.
IterQuery == IF Unwrap(iter).kind = "Descendant" THEN children ELSE parents

\* The members of the components of the entities of S.
Successors(query, S) == UNION {get_flatten(query, n) : n \in S}

RECURSIVE Closure(_, _)
Closure(query, S) ==
    LET T == S \cup Successors(query, S)
    IN IF T = S THEN S ELSE Closure(query, T)

\* The nodes reachable from root by one or more edges of the query.
Reachable(query, root) == Closure(query, get_flatten(query, root))

Acyclic(query) == \A n \in DOMAIN query : n \notin Reachable(query, n)

\* The least number of edges from root to node, counted from the set S of
\* nodes at most d edges away.
RECURSIVE DistanceFrom(_, _, _, _)
DistanceFrom(query, S, node, d) ==
    IF node \in S \/ d > MaxNodes THEN d
    ELSE DistanceFrom(query, S \cup Successors(query, S), node, d + 1)

Distance(query, root, node) == DistanceFrom(query, get_flatten(query, root), node, 1)

\* C22: DescendantIterator(root) on an acyclic graph yields exactly the nodes
\* reachable from root by one or more ChildSet edges, each exactly once, also
\* when a node is reachable along several paths; AncestorIterator(root) does
\* the same over ParentSet edges.
C22_ExactlyReachable ==
    (iter # None /\ Unwrap(iter).done /\ Acyclic(IterQuery)) =>
        /\ from_iter(Unwrap(iter).result) = Reachable(IterQuery, Unwrap(iter).entity)
        /\ Distinct(Unwrap(iter).result)

\* Both iterators have been consumed on a diamond a -> b, a -> c, b -> d,
\* c -> d, where d is between b and c in identifier order.
C22_Witness ==
    /\ iter # None /\ Unwrap(iter).done
    /\ \E a \in alive, b \in alive, c \in alive, d \in alive :
           /\ b < d /\ d < c
           /\ ChildSet(World, a) = {b, c}
           /\ ChildSet(World, b) = {d}
           /\ ChildSet(World, c) = {d}
           /\ ChildSet(World, d) = {}
           /\ \/ /\ Unwrap(iter).kind = "Descendant"
                 /\ Unwrap(iter).entity = a
                 /\ Unwrap(iter).result = <<b, d, c>>
              \/ /\ Unwrap(iter).kind = "Ancestor"
                 /\ Unwrap(iter).entity = d
                 /\ Len(Unwrap(iter).result) = 3

\* C23: traversal is breadth-first: the nodes are yielded in non-decreasing
\* order of their edge distance from root, i.e. no node at distance d+1 is
\* yielded before a node at distance d.  Stated for acyclic graphs, where every
\* yielded node has a distance of at least one.
C23_BreadthFirst ==
    (iter # None /\ Acyclic(IterQuery)) =>
        LET it == Unwrap(iter)
        IN \A i \in 1..Len(it.result), j \in 1..Len(it.result) :
               i < j => Distance(IterQuery, it.entity, it.result[i])
                            <= Distance(IterQuery, it.entity, it.result[j])

\* The iterator under the scheduling of a for loop, which calls next until it
\* returns None.
SpecTraversalFair == SpecTraversal /\ WF_vars(IterNext)

\* C24: traversal terminates: on every finite graph, including graphs with
\* re-convergent paths and graphs with a cycle, the iterators return
\* end-of-iteration after at most as many yields as there are nodes, because a
\* node is expanded at most once.
C24_Terminates ==
    /\ [](iter # None =>
              /\ Len(Unwrap(iter).result) <= Cardinality(alive)
              /\ Distinct(Unwrap(iter).result))
    /\ (iter # None) ~> (iter # None /\ Unwrap(iter).done)

\* An iterator has returned end-of-iteration on a graph with a cycle through
\* its root and a node reached along two paths.
C24_Witness ==
    /\ iter # None /\ Unwrap(iter).done
    /\ Unwrap(iter).entity \in Reachable(IterQuery, Unwrap(iter).entity)
    /\ \E n \in alive, p \in alive, q \in alive :
           /\ p # q
           /\ {p, q} \subseteq get_flatten(IterQuery, Unwrap(iter).entity)
           /\ n \in get_flatten(IterQuery, p) \cap get_flatten(IterQuery, q)

\* C25: DescendantIterator(root) and AncestorIterator(root) never yield root
\* itself, for every graph the mutation operations can build.
C25_RootExcluded ==
    ~panicked =>
        \A root \in alive :
            /\ root \notin from_iter(iter_descendants(World, root))
            /\ root \notin from_iter(iter_ancestors(World, root))

\* C26: ancestor mirror: in every state reachable by the mutation operations,
\* node x is yielded by DescendantIterator(y) if and only if y is yielded by
\* AncestorIterator(x).
C26_AncestorMirror ==
    ~panicked =>
        \A x \in alive, y \in alive :
            x \in from_iter(iter_descendants(World, y))
                <=> y \in from_iter(iter_ancestors(World, x))

\* One call of next, described from the iterator before (it) and after (it2)
\* over the query q.
StepOrder(it, it2, q) ==
    IF it.self.nexts = {}
    THEN it2.done /\ it2.result = it.result /\ it2.self = it.self
    ELSE \E e \in it.self.nexts :
             /\ \A y \in it.self.nexts : e <= y
             /\ ~it2.done
             /\ it2.result = Append(it.result, e)
             /\ it2.self.visited = it.self.visited \cup {e}
             /\ it2.self.nexts = (it.self.nexts \ {e})
                                     \cup (get_flatten(q, e) \ it2.self.visited)

\* The yielded sequences do not depend on the order in which two children
\* were attached to a parent.
AttachOrderIrrelevant ==
    \A p \in alive, a \in alive, b \in alive :
        LET ab == add_child(add_child(World, p, a), p, b)
            ba == add_child(add_child(World, p, b), p, a)
        IN \A root \in alive :
               /\ iter_descendants(ab, root) = iter_descendants(ba, root)
               /\ iter_ancestors(ab, root) = iter_ancestors(ba, root)

Depth(builder) == IF "outer" \in DOMAIN builder THEN 2 ELSE 1

\* The entity the last spawn_empty of the builder returned.
last_spawned(builder) == builder.children[Len(builder.children)]

\* A command can be added inside the scope: room is kept for the PushChildren
\* of each open with_children call.
ScopeCanAdd ==
    /\ scope # None
    /\ Len(queue) + Depth(Unwrap(scope)) < MaxScopeQueue

\* ChildBuilder::add_command inside the closure, here with a RemoveChildren
\* of a node the builder has spawned from the builder's parent.
ScopeAddCommand ==
    /\ ScopeCanAdd
    /\ \E e \in from_iter(Unwrap(scope).children) :
           queue' = Commands_add(queue,
                                 Cmd_RemoveChildren(Unwrap(scope).parent, <<e>>))
    /\ UNCHANGED <<alive, next_id, children, parents, events, has_events,
                   panicked, applying, reserved, scope, immediate, iter>>

\* A command on the EntityCommands that the builder's spawn_empty returned:
\* parent.spawn_empty().add_child(x).
ScopeEntityCommand ==
    /\ ScopeCanAdd
    /\ Unwrap(scope).children # <<>>
    /\ \E x \in alive :
           queue' = Commands_add(queue,
                                 EntityCommands_add_child(last_spawned(Unwrap(scope)), x))
    /\ UNCHANGED <<alive, next_id, children, parents, events, has_events,
                   panicked, applying, reserved, scope, immediate, iter>>

\* parent.spawn_empty().with_children(..) inside the closure: a nested scope
\* whose parent is the node just spawned.
ScopeNested ==
    /\ ScopeCanAdd
    /\ Depth(Unwrap(scope)) = 1
    /\ Unwrap(scope).children # <<>>
    /\ scope' = Some([parent |-> last_spawned(Unwrap(scope)),
                      children |-> <<>>,
                      outer |-> Unwrap(scope)])
    /\ UNCHANGED <<alive, next_id, children, parents, events, has_events,
                   panicked, queue, applying, reserved, immediate, iter>>

NextScope ==
    \/ BeginScope
    \/ ScopeSpawn
    \/ ScopeAddCommand
    \/ ScopeEntityCommand
    \/ ScopeNested
    \/ EndScope
    \/ BeginApply
    \/ ApplyNext
    \/ DrainEvents

SpecScope == InitBuilder /\ [][NextScope]_vars

\* The identifiers a command names.
CommandIds(c) ==
    {c.parent}
        \cup (IF "child" \in DOMAIN c THEN {c.child} ELSE {})
        \cup (IF "children" \in DOMAIN c THEN from_iter(c.children) ELSE {})
        \cup (IF "new_parent" \in DOMAIN c THEN {c.new_parent} ELSE {})

\* The batch-attach command of a builder.
Batch(builder) == Cmd_PushChildren(builder.parent, builder.children)

\* No node of the batch command c is attached to the command's parent.
NotYetAttached(c) == from_iter(c.children) \cap ChildSet(World, c.parent) = {}

\* A step inside a builder scope: the World is left alone; when the scope ends
\* its batch goes behind everything queued so far, and any other step that
\* queues something puts one command that is not a batch at the back.
ScopeStep ==
    scope # None =>
        /\ UNCHANGED <<alive, children, parents, events>>
        /\ IF scope' = Enclosing(Unwrap(scope))
           THEN queue' = Append(queue, Batch(Unwrap(scope)))
           ELSE \/ queue' = queue
                \/ /\ Len(queue') = Len(queue) + 1
                   /\ SubSeq(queue', 1, Len(queue)) = queue
                   /\ queue'[Len(queue')].cmd # "PushChildren"
                   /\ scope' = scope

\* A step of the apply pass: every node the command names exists and the
\* command returns; a command issued inside a scope finds the nodes it names
\* not attached, and so does every command ahead of a batch still queued; the
\* batch itself then attaches its nodes.
PassStep ==
    (applying /\ queue # <<>> /\ queue' = Tail(queue)) =>
        LET c == Head(queue)
        IN /\ reserved = {}
           /\ CommandIds(c) \subseteq alive
           /\ ~panicked'
           /\ c.cmd = "RemoveChildren" => NotYetAttached(c)
           /\ \A k \in 1..Len(queue) :
                  queue[k].cmd = "PushChildren" => NotYetAttached(queue[k])
           /\ c.cmd = "PushChildren" =>
                  from_iter(c.children) \subseteq ChildSet(World', c.parent)

\* C29: in a deferred builder scope the batch-attach command is enqueued when
\* the scope ends, after the spawns and after every command issued inside the
\* scope (add_command, commands on spawned nodes, nested scopes); during the
\* apply pass the spawned nodes therefore exist before they are attached, and
\* a command issued inside the scope executes while they are not yet attached
\* to the parent.
C29_ScopeOrder == [][ScopeStep /\ PassStep]_vars

\* The pass is about to run a command issued inside a nested scope, ahead of
\* the batch of the nested scope, which is ahead of the batch of the outer
\* scope.
C29_Witness ==
    /\ applying /\ Len(queue) = 3
    /\ queue[1].cmd = "RemoveChildren"
    /\ queue[2].cmd = "PushChildren"
    /\ queue[3].cmd = "PushChildren"
    /\ queue[1].parent = queue[2].parent
    /\ queue[1].children = queue[2].children
    /\ queue[2].children # <<>>
    /\ queue[2].parent \in from_iter(queue[3].children)

\* ------------------------------------------- iterators called past their end
\* One call of next on the iterator, whether or not it has returned None
\* before.
IterCall ==
    /\ iter # None
    /\ LET it == Unwrap(iter)
           r == IF it.kind = "Descendant"
                THEN DescendantIter_next(it.self, children)
                ELSE AncestorIter_next(it.self, parents)
       IN iter' = Some([it EXCEPT !.self = r.self,
                                  !.result = IF r.item = None THEN @
                                             ELSE Append(@, Unwrap(r.item)),
                                  !.done = (r.item = None)])
    /\ UNCHANGED <<alive, next_id, children, parents, events, has_events,
                   panicked, queue, applying, reserved, scope, immediate>>

\* The iterator is dropped, consumed to the end or not.
IterDrop ==
    /\ iter # None
    /\ iter' = None
    /\ UNCHANGED <<alive, next_id, children, parents, events, has_events,
                   panicked, queue, applying, reserved, scope, immediate>>

NextIterators ==
    \/ IterDescendants
    \/ IterAncestors
    \/ IterCall
    \/ IterDrop

SpecIterators == InitTraversal /\ [][NextIterators]_vars

\* The item a further call of next on the iterator being consumed returns.
NextItem ==
    IF Unwrap(iter).kind = "Descendant"
    THEN DescendantIter_next(Unwrap(iter).self, children).item
    ELSE AncestorIter_next(Unwrap(iter).self, parents).item

\* C31: the traversal iterators are single-pass and read-only: once next has
\* returned end-of-iteration every later call also returns end-of-iteration,
\* and creating, stepping or abandoning an iterator changes no ChildSet,
\* ParentSet or event log.
C31_SinglePassReadOnly ==
    /\ [](iter # None /\ Unwrap(iter).done => NextItem = None)
    /\ [][/\ (iter # None /\ Unwrap(iter).done /\ iter' # None) => iter' = iter
          /\ UNCHANGED <<alive, children, parents, events>>]_vars

\* An iterator that yielded several nodes has returned end-of-iteration and
\* can be called again.
C31_Witness ==
    /\ iter # None /\ Unwrap(iter).done
    /\ Len(Unwrap(iter).result) >= 2
    /\ ENABLED IterCall

\* C32: no abort on live identifiers: in every state reachable by operations
\* whose arguments are identifiers of nodes existing at call time (nodes being
\* destroyed only through clear), every operation and every command whose
\* arguments are existing nodes completes without aborting.
C32_NoAbortOnLive ==
    [][\A p \in alive, c \in alive, n \in alive, l \in Slices(alive) :
        /\ Step(add_child(World, p, c)) => ~panicked'
        /\ Step(set_parent(World, c, p)) => ~panicked'
        /\ Step(push_children(World, p, l)) => ~panicked'
        /\ Step(EntityMut_remove_children(World, p, l)) => ~panicked'
        /\ Step(remove_parent(World, c, p)) => ~panicked'
        /\ Step(move_child(World, p, n, c)) => ~panicked'
        /\ Step(move_children(World, p, n, l)) => ~panicked'
        /\ Step(clear(World, n)) => ~panicked'
        /\ Step(ClearChildren_apply(World, p)) => ~panicked'
        /\ Step(ReplaceChildren_apply(World, p, l)) => ~panicked']_vars

\* C33: BatchAttach with an empty children list (push_children(&[]), the
\* PushChildren of a builder scope that spawns nothing) and BatchMove with an
\* empty children list are no-ops: they change no ChildSet or ParentSet,
\* create no component and emit nothing.
C33_EmptyBatchNoop ==
    [][\A p \in alive, n \in alive :
        /\ Step(push_children(World, p, <<>>)) =>
               ~panicked' /\ UNCHANGED <<children, parents, events>>
        /\ Step(PushChildren_apply(World, p, <<>>)) =>
               ~panicked' /\ UNCHANGED <<children, parents, events>>
        /\ Step(move_children(World, p, n, <<>>)) =>
               ~panicked' /\ UNCHANGED <<children, parents, events>>]_vars

\* ------------------------------------------- the event channel never drained
\* The world becomes w, and the channel keeps every event emitted so far.
StepLog(w) ==
    /\ ~panicked
    /\ Len(w.events) <= MaxLog
    /\ alive' = w.alive
    /\ next_id' = w.next_id
    /\ children' = w.children
    /\ parents' = w.parents
    /\ events' = w.events
    /\ has_events' = w.has_events
    /\ panicked' = w.panicked
    /\ immediate' = w
    /\ UNCHANGED <<queue, applying, reserved, scope, iter>>

LogAddChild == \E p \in alive, c \in alive : StepLog(add_child(World, p, c))

LogSetParent == \E c \in alive, p \in alive : StepLog(set_parent(World, c, p))

LogPushChildren ==
    \E p \in alive, l \in Slices(alive) : StepLog(push_children(World, p, l))

LogRemoveChildren ==
    \E p \in alive, l \in Slices(alive) :
        StepLog(EntityMut_remove_children(World, p, l))

LogRemoveParent == \E c \in alive, p \in alive : StepLog(remove_parent(World, c, p))

LogSpawn ==
    \E p \in alive :
        /\ next_id <= MaxEntities
        /\ StepLog(spawn_empty(World, p))

LogClearChildren == \E p \in alive : StepLog(ClearChildren_apply(World, p))

LogReplaceChildren ==
    \E p \in alive, l \in Slices(alive) : StepLog(ReplaceChildren_apply(World, p, l))

NextEventLog ==
    \/ LogAddChild
    \/ LogSetParent
    \/ LogPushChildren
    \/ LogRemoveChildren
    \/ LogRemoveParent
    \/ LogSpawn
    \/ LogClearChildren
    \/ LogReplaceChildren

SpecEventLog == Init /\ [][NextEventLog]_vars

\* The edges (parent, child) on the Children side and on the Parents side.
ChildEdges(w) == {e \in Entities \X Entities : e[2] \in ChildSet(w, e[1])}
ParentEdges(w) == {e \in Entities \X Entities : e[1] \in ParentSet(w, e[2])}

\* The edge set that replaying the log from the edge set E gives: ChildAdded
\* adds the edge (parent, child), ChildRemoved removes it.
RECURSIVE Replay(_, _)
Replay(E, log) ==
    IF log = <<>> THEN E
    ELSE LET ev == Head(log)
             edge == <<ev.parent, ev.child>>
         IN Replay(IF ev.kind = "ChildAdded" THEN E \cup {edge} ELSE E \ {edge},
                   Tail(log))

\* C34: event log faithfulness: with an event channel registered from the
\* start and using only event-emitting operations (no Move, BatchMove or
\* clear), after any sequence of operations the current edge set equals the
\* result of replaying the event log from the empty graph.
C34_LogFaithful ==
    ~panicked =>
        /\ ChildEdges(World) = Replay({}, events)
        /\ ParentEdges(World) = Replay({}, events)

\* The log holds an attach that was undone and attaches that were not.
C34_Witness ==
    /\ ~panicked /\ Len(events) = MaxLog
    /\ \E i \in 1..Len(events) : events[i].kind = "ChildRemoved"
    /\ Cardinality(ChildEdges(World)) >= 1
    /\ Cardinality(ChildEdges(World)) < Cardinality(
           {i \in 1..Len(events) : events[i].kind = "ChildAdded"})

\* The events an operation that made w of the World has emitted.
Emitted(w) == SubSeq(w.events, Len(events) + 1, Len(w.events))

\* C35: BatchAttach and BatchDetach given a list that names the same child
\* more than once emit exactly one event for that child, so the number of
\* ChildAdded (ChildRemoved) events of a call equals the number of edges the
\* call creates (removes).
C35_RepeatedIdentifiers ==
    [][\A p \in alive, l \in Slices(alive) :
        /\ Step(push_children(World, p, l)) =>
               /\ \A i \in 1..Len(Emitted(World')) :
                      Emitted(World')[i].kind = "ChildAdded"
               /\ Len(Emitted(World')) =
                      Cardinality(ChildSet(World', p) \ ChildSet(World, p))
        /\ Step(EntityMut_remove_children(World, p, l)) =>
               /\ \A i \in 1..Len(Emitted(World')) :
                      Emitted(World')[i].kind = "ChildRemoved"
               /\ Len(Emitted(World')) =
                      Cardinality(ChildSet(World, p) \ ChildSet(World', p))]_vars

C37_AttachDetachRoundTrip ==
    CanStart =>
        \A p \in alive, c \in alive :
            c \notin ChildSet(World, p) =>
                LET attached == add_child(World, p, c)
                IN /\ SameSets(remove_parent(attached, c, p), World)
                   /\ SameSets(EntityMut_remove_children(attached, p, <<c>>), World)

\* The world w differs from the World at most in the Children of node.
OnlyChildrenOf(w, node) ==
    w = [World EXCEPT !.children[node] = w.children[node]]

\* The world w differs from the World at most in the Parents of node.
OnlyParentsOf(w, node) ==
    w = [World EXCEPT !.parents[node] = w.parents[node]]

\* C38: each unidirectional primitive (insert / remove children, insert /
\* remove parent) changes only the one named set of the one named node and
\* emits no notification; the mirror set of every other node and the event log
\* are unchanged.
C38_UnidirectionalFrame ==
    CanStart =>
        \A p \in alive, c \in alive, l \in Slices(alive) :
            /\ LET w == insert_children_unidirectional(World, l, p)
               IN /\ OnlyChildrenOf(w, p)
                  /\ ChildSet(w, p) = ChildSet(World, p) \cup from_iter(l)
            /\ LET w == remove_children_unidirectional(World, l, p)
               IN /\ OnlyChildrenOf(w, p)
                  /\ ChildSet(w, p) = ChildSet(World, p) \ from_iter(l)
            /\ LET w == insert_parent_unidirectional(World, c, p)
               IN /\ OnlyParentsOf(w, c)
                  /\ ParentSet(w, c) = ParentSet(World, c) \cup {p}
            /\ LET w == remove_parent_unidirectional(World, c, p)
               IN /\ OnlyParentsOf(w, c)
                  /\ ParentSet(w, c) = ParentSet(World, c) \ {p}

\* In a symmetric world each primitive, called alone, changes its set and
\* leaves the mirror set behind.
C38_Witness ==
    /\ CanStart /\ Symmetric(World)
    /\ \E p \in alive, c \in alive, d \in alive :
           /\ c \in ChildSet(World, p) /\ d \notin ChildSet(World, p)
           /\ ~Symmetric(insert_children_unidirectional(World, <<d>>, p))
           /\ ~Symmetric(remove_children_unidirectional(World, <<c>>, p))
           /\ ~Symmetric(insert_parent_unidirectional(World, d, p))
           /\ ~Symmetric(remove_parent_unidirectional(World, c, p))

====
